---- MODULE Spec2Model ----
(***************************************************************************)
(* A model of build.rs, the build script of ffmpeg-dev: one run of build() *)
(* is a walk through its phases (EXTRACT, CONFIGURE, BUILD, LINK, CODEGEN, *)
(* COMPILE CBITS); the file system under OUT_DIR persists from one run to  *)
(* the next, the rest of the state is per run.                             *)
(*                                                                         *)
(* Paths are sequences of strings (PathBuf::join appends), byte streams    *)
(* and texts are sequences of tokens ("\n" is the line break, "<FF>" a     *)
(* byte that is no UTF-8), an Option is a sequence of length <= 1.         *)
(***************************************************************************)
EXTENDS Integers, Sequences, FiniteSets, TLC

\* How many runs of the build script one behaviour holds.
MaxRuns == 2

-----------------------------------------------------------------------------
(* Generic helpers *)

None == <<>>
Some(x) == <<x>>

Range(s) == {s[i] : i \in 1..Len(s)}

IsPrefix(p, s) == Len(p) <= Len(s) /\ SubSeq(s, 1, Len(p)) = p

\* str::contains on token sequences: pat occurs contiguously in text.
Contains(text, pat) ==
    \E i \in 0..(Len(text) - Len(pat)) : SubSeq(text, i + 1, i + Len(pat)) = pat

\* str::lines: the maximal runs of tokens between line breaks (a final line
\* break ends the last line and starts no empty one).
RECURSIVE LinesFrom(_, _, _)
LinesFrom(text, i, cur) ==
    IF i > Len(text) THEN (IF cur = <<>> THEN <<>> ELSE <<cur>>)
    ELSE IF text[i] = "\n" THEN <<cur>> \o LinesFrom(text, i + 1, <<>>)
    ELSE LinesFrom(text, i + 1, Append(cur, text[i]))

Lines(text) == LinesFrom(text, 1, <<>>)

\* String::from_utf8 succeeds on a byte stream without an invalid byte.
IsUtf8(bytes) == \A i \in 1..Len(bytes) : bytes[i] # "<FF>"

\* str::to_lowercase on the strings of this model.
ToLower(s) ==
    CASE s = "RELEASE" -> "release"
      [] s = "Release" -> "release"
      [] s = "DEBUG" -> "debug"
      [] s = "NASM/YASM" -> "nasm/yasm"
      [] s = "Nasm/Yasm" -> "nasm/yasm"
      [] s = "NOT" -> "not"
      [] s = "Not" -> "not"
      [] s = "FOUND" -> "found"
      [] s = "ERROR:" -> "error:"
      [] OTHER -> s

\* str::trim on the lines of the headers file of this model.
Trim(s) ==
    CASE s = "  " -> ""
      [] s = " libavutil/avutil.h " -> "libavutil/avutil.h"
      [] OTHER -> s

\* format!("{}", x) for a u8.
FormatU8(x) ==
    CASE x = 0 -> "0" [] x = 1 -> "1" [] x = 2 -> "2" [] x = 3 -> "3" [] OTHER -> "n"

-----------------------------------------------------------------------------
(* PATHS *)

STATIC_LIBS == <<
    <<"avcodec", "libavcodec/libavcodec.a">>,
    <<"avdevice", "libavdevice/libavdevice.a">>,
    <<"avfilter", "libavfilter/libavfilter.a">>,
    <<"avformat", "libavformat/libavformat.a">>,
    <<"avutil", "libavutil/libavutil.a">>,
    <<"swresample", "libswresample/libswresample.a">>,
    <<"swscale", "libswscale/libswscale.a">> >>

SEARCH_PATHS == <<
    "libavcodec", "libavdevice", "libavfilter", "libavformat", "libavresample",
    "libavutil", "libpostproc", "libswresample", "libswscale" >>

Join(base, rel) == Append(base, rel)

current_dir == <<"CWD">>
out_path == <<"OUT_DIR">>
source_path == Join(out_path, "ffmpeg-src")
pristine_path == Join(current_dir, "ffmpeg-src")
gen_file_name == "bindings_ffmpeg.rs"
bindings_path == Join(out_path, gen_file_name)
NASM_YASM_MESSAGE == <<"nasm/yasm", "not", "found", "or", "too", "old">>

-----------------------------------------------------------------------------
(* The state *)

VARIABLES
    env,             \* the environment variables: name -> Option of value
    files,           \* the paths that exist (directories and files)
    bindings,        \* Option: the content of OUT_DIR/bindings_ffmpeg.rs
    headers_file,    \* Option: the lines of the file "headers"
    run,             \* the number of runs started
    pc,              \* the phase of the current run
    skip_build,      \* build(): the local of that name
    configure_flags, \* build(): the local of that name
    pkg_config_path, \* build(): the local of that name
    ffmpeg_headers,  \* build(): the local of that name
    stdout,          \* the lines this run printed, in order
    invocations,     \* the external tools this run invoked, in order
    result,          \* build(): the local of that name, the last process result
    panic,           \* Option: the panic that ended this run
    prev             \* what the completed run before left: ok, if neither the
                     \* configuration nor OUT_DIR was changed since; what it
                     \* printed; the bindings; built_with, the feature flags
                     \* configure was given for the make that left the static
                     \* libraries (None: not known)

vars == <<env, files, bindings, headers_file, run, pc, skip_build, configure_flags,
          pkg_config_path, ffmpeg_headers, stdout, invocations, result, panic, prev>>

fsvars == <<files, bindings>>
runvars == <<skip_build, configure_flags, pkg_config_path, ffmpeg_headers>>

-----------------------------------------------------------------------------
(* The values the model draws its inputs from *)

H1 == "libavcodec/avcodec.h"
H2 == "libavutil/avutil.h"

\* The contents of the file "headers": the declared list, or one with a
\* line of blanks in it.
HeaderFiles == { <<H1, H2>>, <<H1, "  ", H2>> }

\* The pristine source tree ./ffmpeg-src, with both declared headers or
\* without the second.
PristineTrees ==
    { {pristine_path} \cup {Join(pristine_path, h) : h \in hs} : hs \in {{H1, H2}, {H1}} }

Artifacts == {Join(source_path, STATIC_LIBS[i][2]) : i \in 1..Len(STATIC_LIBS)}

\* cp -r src dst: a new dst becomes the copy of src; an existing directory
\* dst receives the copy as dst/<name of src>.
CpTarget(fs, src, dst) == IF dst \in fs THEN Join(dst, src[Len(src)]) ELSE dst

CpR(fs, src, dst) ==
    fs \cup { CpTarget(fs, src, dst) \o SubSeq(p, Len(src) + 1, Len(p)) :
                p \in {q \in fs : IsPrefix(src, q)} }

\* What bindgen writes for a list of header paths.
Generated(paths) == [include |-> source_path, headers |-> paths]

\* OUT_DIR as earlier runs may have left it: fresh; staged with one archive
\* (an interrupted make); built, with bindings generated from an older
\* header list.
OutDirs(tree) ==
    LET copy == CpR(tree \cup {out_path}, pristine_path, source_path) \ tree
    IN  { [files |-> {out_path}, bindings |-> None],
          [files |-> copy \cup {Join(source_path, STATIC_LIBS[1][2])}, bindings |-> None],
          [files |-> copy \cup Artifacts \cup {bindings_path},
           bindings |-> Some(Generated(<<Join(source_path, H1)>>))] }

Environments ==
    [ PROFILE : {Some("debug"), Some("release"), Some("RELEASE")},
      OPT_LEVEL : {Some("0"), Some("3")},
      FFDEV1 : {None, Some("1")},
      FFDEV2 : {None, Some("2")},
      CARGO_FEATURE_GPL : {None, Some("1")},
      CARGO_FEATURE_X264 : {None, Some("1")},
      PKG_CONFIG_PATH : {None, Some("/usr/lib/pkgconfig")},
      DEP_X264_LIBS : {Some("/x264/lib")},
      DEP_X264_PKGCONFIG : {Some("/x264/lib/pkgconfig")} ]

\* The byte streams an external tool may leave on stdout or stderr.
OTHER_TEXT == <<"ERROR:", "gcc", "not", "found", "\n">>
NASM_TEXT == <<"nasm/yasm", "not", "found", "or", "too", "old", "\n",
               "Use", "--disable-x86asm", "\n">>
UPPER_TEXT == <<"ERROR:", "Nasm/Yasm", "not", "found", "or", "too", "old", "\n">>
BAD_BYTES == <<"ERROR:", "<FF>", "\n">>

Captured(stderr, out) == [stderr |-> stderr, stdout |-> out]

\* What a failing cp leaves: its complaint on stderr.
CP_TEXT == <<"cp:", "cannot", "create", "regular", "file", "\n">>

CopyOutputs == { Captured(CP_TEXT, <<>>) }

\* What a failing first configure may leave on (stderr, stdout): no message,
\* the message on either stream, the message in other letter case, and
\* bytes that are no UTF-8 beside each of these.
ConfigureOutputs ==
    { Captured(OTHER_TEXT, OTHER_TEXT), Captured(NASM_TEXT, OTHER_TEXT),
      Captured(OTHER_TEXT, NASM_TEXT), Captured(UPPER_TEXT, OTHER_TEXT),
      Captured(BAD_BYTES, NASM_TEXT), Captured(NASM_TEXT, BAD_BYTES),
      Captured(BAD_BYTES, OTHER_TEXT) }

\* What a failing retry may leave.
RetryOutputs ==
    { Captured(NASM_TEXT, OTHER_TEXT), Captured(OTHER_TEXT, OTHER_TEXT),
      Captured(BAD_BYTES, OTHER_TEXT) }

\* What a failing make may leave.
MakeOutputs ==
    { Captured(OTHER_TEXT, OTHER_TEXT), Captured(BAD_BYTES, OTHER_TEXT),
      Captured(OTHER_TEXT, BAD_BYTES) }

\* A tool that succeeds leaves nothing the script reads; one that does not
\* start leaves nothing.
Outcomes(failures) ==
    { [status |-> "ok", stderr |-> <<>>, stdout |-> <<>>],
      [status |-> "nospawn", stderr |-> <<>>, stdout |-> <<>>] }
    \cup { [status |-> "fail", stderr |-> c.stderr, stdout |-> c.stdout] : c \in failures }

-----------------------------------------------------------------------------
(* UTILS - ENVIROMENT *)

has_env_var_with_value(s, v) ==
    IF env[s] = None THEN FALSE ELSE ToLower(env[s][1]) = ToLower(v)

is_release_mode == has_env_var_with_value("PROFILE", "release")

is_debug_mode == has_env_var_with_value("PROFILE", "debug")

opt_level_eq(x) == has_env_var_with_value("OPT_LEVEL", FormatU8(x))

-----------------------------------------------------------------------------
(* BUILD PIPELINE: what build() computes *)

Exists(path) == path \in files

already_built ==
    \A i \in 1..Len(STATIC_LIBS) : Exists(Join(source_path, STATIC_LIBS[i][2]))

\* skip_build with the profile left out of the decision.
skip_build_value_any_profile ==
    IF has_env_var_with_value("FFDEV1", "1") THEN FALSE ELSE already_built

\* skip_build kept only for libraries made with the features now set.
skip_build_value_same_features ==
    LET now == (IF env["CARGO_FEATURE_GPL"] # None THEN {"--enable-gpl"} ELSE {})
               \cup (IF env["CARGO_FEATURE_X264"] # None THEN {"--enable-libx264"} ELSE {})
    IN  IF has_env_var_with_value("FFDEV1", "1") THEN FALSE
        ELSE already_built /\ ~is_release_mode /\ (prev.built_with = None \/ prev.built_with[1] = now)

\* let mut skip_build = ...; if FFDEV1 = 1 { skip_build = false }
skip_build_value ==
    IF has_env_var_with_value("FFDEV1", "1") THEN FALSE
    ELSE already_built /\ ~is_release_mode

\* The extraction done in every run.
extract_always == TRUE

\* if !source_path.exists() || !skip_build
extract_needed == ~Exists(source_path) \/ ~skip_build

\* The debug flags at any optimization level.
debug_flags_wanted_any_level == is_debug_mode

\* if is_debug_mode() && opt_level_eq(0)
debug_flags_wanted == is_debug_mode /\ opt_level_eq(0)

\* The flags of the first configure attempt.
debug_flags == <<"--disable-optimizations", "--enable-debug", "--disable-stripping">>

initial_configure_flags ==
    <<"--disable-programs", "--disable-doc", "--disable-autodetect">>
    \o (IF env["CARGO_FEATURE_GPL"] # None THEN <<"--enable-gpl">> ELSE <<>>)
    \o (IF env["CARGO_FEATURE_X264"] # None THEN <<"--enable-libx264">> ELSE <<>>)
    \o (IF debug_flags_wanted THEN debug_flags ELSE <<>>)

\* The codec's path pushed after the path found in the environment.
x264_pkg_config_appended ==
    (IF env["PKG_CONFIG_PATH"] # None THEN <<env["PKG_CONFIG_PATH"][1], ":">> ELSE <<>>)
    \o <<env["DEP_X264_PKGCONFIG"][1]>>

\* An OsString is the sequence of the pieces pushed onto it.
x264_pkg_config ==
    <<env["DEP_X264_PKGCONFIG"][1]>>
    \o (IF env["PKG_CONFIG_PATH"] # None THEN <<":", env["PKG_CONFIG_PATH"][1]>> ELSE <<>>)

initial_pkg_config_path ==
    IF env["CARGO_FEATURE_X264"] # None THEN Some(x264_pkg_config)
    ELSE IF env["PKG_CONFIG_PATH"] # None THEN Some(<<env["PKG_CONFIG_PATH"][1]>>)
    ELSE None

Line(key, value) == [key |-> key, value |-> value]

x264_directives ==
    IF env["CARGO_FEATURE_X264"] # None
    THEN << Line("cargo:rustc-link-search=native", <<env["DEP_X264_LIBS"][1]>>),
            Line("cargo:rustc-link-lib=static", <<"x264">>) >>
    ELSE <<>>

\* str::to_lowercase on a text.
LowerText(text) == [i \in 1..Len(text) |-> ToLower(text[i])]

\* The message looked for in the lowercased lines.
nasm_yasm_issue_any_case(stderr, out) ==
    LET ls == Lines(LowerText(stderr)) \o Lines(LowerText(out))
    IN  \E i \in 1..Len(ls) : Contains(ls[i], NASM_YASM_MESSAGE)

\* The message looked for on stderr alone.
nasm_yasm_issue_stderr_only(stderr, out) ==
    \E i \in 1..Len(Lines(stderr)) : Contains(Lines(stderr)[i], NASM_YASM_MESSAGE)

\* stderr.lines().chain(stdout.lines()).any(|x| x.contains(...))
nasm_yasm_issue(stderr, out) ==
    LET ls == Lines(stderr) \o Lines(out)
    IN  \E i \in 1..Len(ls) : Contains(ls[i], NASM_YASM_MESSAGE)

\* The LINK phase's lines with the libraries ahead of the search paths.
link_directives_libs_first ==
    [i \in 1..Len(STATIC_LIBS) |->
          [key |-> "cargo:rustc-link-lib=static", value |-> <<STATIC_LIBS[i][1]>>]]
    \o <<[key |-> "cargo:rustc-link-search=native", value |-> source_path]>>
    \o [i \in 1..Len(SEARCH_PATHS) |->
          [key |-> "cargo:rustc-link-search=native",
           value |-> Join(source_path, SEARCH_PATHS[i])]]

\* The LINK phase's lines.
link_directives ==
    <<Line("cargo:rustc-link-search=native", source_path)>>
    \o [i \in 1..Len(SEARCH_PATHS) |->
          Line("cargo:rustc-link-search=native", Join(source_path, SEARCH_PATHS[i]))]
    \o [i \in 1..Len(STATIC_LIBS) |->
          Line("cargo:rustc-link-lib=static", <<STATIC_LIBS[i][1]>>)]

\* The check of the lines as they are, not trimmed.
headers_valid_untrimmed(lines) == \A i \in 1..Len(lines) : lines[i] # ""

\* assert!(ffmpeg_headers.iter().map(|x| x.trim()).all(|x| !x.is_empty()))
headers_valid(lines) == \A i \in 1..Len(lines) : Trim(lines[i]) # ""

\* skip_codegen given up whenever the library was rebuilt.
skip_codegen_unless_rebuilt ==
    IF has_env_var_with_value("FFDEV2", "2") THEN FALSE
    ELSE (bindings_path \in files) /\ skip_build

\* skip_codegen without the override.
skip_codegen_no_override == bindings_path \in files

\* let mut skip_codegen = ...; if FFDEV2 = 2 { skip_codegen = false }
skip_codegen ==
    IF has_env_var_with_value("FFDEV2", "2") THEN FALSE ELSE Exists(bindings_path)

resolved(lines) == [i \in 1..Len(lines) |-> Join(source_path, lines[i])]

IsMissing(path) == ~Exists(path)

\* The fold that pushes nothing to `missing`.
missing_headers_ignored(lines) == SubSeq(resolved(lines), 1, 0)

\* The fold stopped at the first missing header.
missing_headers_first_only(lines) ==
    LET all == SelectSeq(resolved(lines), IsMissing)
    IN  IF all = <<>> THEN <<>> ELSE <<all[1]>>

\* The fold over ffmpeg_headers: the paths pushed to `missing`, and those
\* given to codegen.header.
missing_headers(lines) == SelectSeq(resolved(lines), IsMissing)

found_headers(lines) == SelectSeq(resolved(lines), Exists)

-----------------------------------------------------------------------------
(* Init *)

\* The ProcessResult of an invocation: its status and the bytes captured
\* from stderr and stdout.
Result(status, stderr, out) == [status |-> status, stderr |-> stderr, stdout |-> out]

NoResult == Result("none", <<>>, <<>>)

NoPrev == [ok |-> FALSE, stdout |-> <<>>, bindings |-> None, built_with |-> None]

Init ==
    /\ env \in Environments
    /\ \E tree \in PristineTrees : \E o \in OutDirs(tree) :
          /\ files = tree \cup o.files
          /\ bindings = o.bindings
    /\ headers_file \in {Some(h) : h \in HeaderFiles}
    /\ run = 0
    /\ pc = "idle"
    /\ skip_build = FALSE
    /\ configure_flags = <<>>
    /\ pkg_config_path = None
    /\ ffmpeg_headers = <<>>
    /\ stdout = <<>>
    /\ invocations = <<>>
    /\ result = NoResult
    /\ panic = None
    /\ prev = NoPrev

-----------------------------------------------------------------------------
(* External tools and panics *)

Arg(s) == <<s>>

Args(strings) == [i \in 1..Len(strings) |-> Arg(strings[i])]

\* One external invocation: the tool, its arguments, the PKG_CONFIG_PATH it
\* was given, and how it ended ("ok", "fail": it exited with a failure
\* status, "nospawn": it could not be started).
Invocation(tool, args, pkg, status) ==
    [tool |-> tool, args |-> args, pkg |-> pkg, status |-> status]

Panic(msg, text, paths) == [msg |-> msg, text |-> text, paths |-> paths]

\* A panic that is noted and does not end the run.
AbortAndGoOn(p) == pc' = "cbits" /\ panic' = Some(p)

Abort(p) == pc' = "aborted" /\ panic' = Some(p)

Invoke(i) == invocations' = Append(invocations, i)

Println(ls) == stdout' = stdout \o ls

-----------------------------------------------------------------------------
(* build(), phase by phase *)

\* main() starts build(): lines 122-135.
Begin ==
    /\ pc = "idle"
    /\ run < MaxRuns
    /\ run' = run + 1
    /\ skip_build' = skip_build_value
    /\ pc' = "extract"
    /\ UNCHANGED <<env, fsvars, headers_file, configure_flags, pkg_config_path,
                   ffmpeg_headers, stdout, invocations, result, panic, prev>>

\* The build block entered whatever skip_build says.
after_extract_always_build == "configure"

after_extract == IF skip_build THEN "link" ELSE "configure"

cp_args == <<Arg("-r"), pristine_path, source_path>>

\* EXTRACT, lines 137-148: cp -r ./ffmpeg-src OUT_DIR/ffmpeg-src succeeds.
ExtractCopy ==
    /\ pc = "extract"
    /\ extract_needed
    /\ Invoke(Invocation("cp", cp_args, None, "ok"))
    /\ result' = Result("ok", <<>>, <<>>)
    /\ files' = CpR(files, pristine_path, source_path)
    /\ IF source_path \in files'
       THEN pc' = after_extract /\ panic' = panic
       ELSE Abort(Panic("assertion failed: source_path.exists()", <<>>, <<>>))
    /\ UNCHANGED <<env, bindings, headers_file, run, runvars, stdout, prev>>

\* EXTRACT: cp cannot be started, or exits with a failure status (having
\* copied nothing, or having created no more than the directory).
ExtractFail ==
    /\ pc = "extract"
    /\ extract_needed
    /\ \E r \in {o \in Outcomes(CopyOutputs) : o.status # "ok"} :
       LET status == r.status IN
          /\ Invoke(Invocation("cp", cp_args, None, status))
          /\ result' = Result(status, r.stderr, r.stdout)
          /\ IF status = "nospawn"
             THEN /\ files' = files
                  /\ Abort(Panic("copy of ffmpeg src into out dir", <<>>, <<>>))
             ELSE /\ files' \in {files, files \cup {CpTarget(files, pristine_path, source_path)}}
                  /\ Abort(Panic("assertion failed: result.status.success()", <<>>, <<>>))
    /\ UNCHANGED <<env, bindings, headers_file, run, runvars, stdout, prev>>

\* EXTRACT: the staged root exists and the build is skipped.
ExtractSkip ==
    /\ pc = "extract"
    /\ ~extract_needed
    /\ pc' = after_extract
    /\ UNCHANGED <<env, fsvars, headers_file, run, runvars, stdout, invocations, result,
                   panic, prev>>

configure_args(flags) == <<Arg("./configure")>> \o Args(flags)

\* A retry after any first failure whose output decodes.
after_failed_configure_blind(first, stderr, out) ==
    IF ~IsUtf8(stderr) \/ ~IsUtf8(out)
    THEN Some(Panic("invalid str", <<>>, <<>>))
    ELSE IF first
    THEN None
    ELSE Some(Panic("configure failed:", stderr \o <<"\n">> \o out, <<>>))

\* What follows a configure attempt that exited with a failure status, lines
\* 205-224: "retry", or the panic.
after_failed_configure(first, stderr, out) ==
    IF ~IsUtf8(stderr) \/ ~IsUtf8(out)
    THEN Some(Panic("invalid str", <<>>, <<>>))
    ELSE IF first /\ nasm_yasm_issue(stderr, out)
    THEN None
    ELSE Some(Panic("configure failed:", stderr \o <<"\n">> \o out, <<>>))

\* CONFIGURE, lines 152-213: the flags are composed and configure runs a
\* first time.
Configure ==
    /\ pc = "configure"
    /\ pkg_config_path' = initial_pkg_config_path
    /\ Println(x264_directives)
    /\ \E r \in Outcomes(ConfigureOutputs) :
       LET status == r.status  stderr == r.stderr  out == r.stdout IN
          /\ Invoke(Invocation("configure", configure_args(initial_configure_flags),
                               pkg_config_path', status))
          /\ result' = Result(status, stderr, out)
          /\ CASE status = "ok" ->
                    /\ configure_flags' = initial_configure_flags
                    /\ pc' = "make" /\ panic' = panic
               [] status = "nospawn" ->
                    /\ configure_flags' = initial_configure_flags
                    /\ Abort(Panic("ffmpeg configure script", <<>>, <<>>))
               [] status = "fail" ->
                    LET p == after_failed_configure(TRUE, stderr, out)
                    IN  IF p = None
                        THEN /\ configure_flags' =
                                    Append(initial_configure_flags, "--disable-x86asm")
                             /\ pc' = "retry" /\ panic' = panic
                        ELSE /\ configure_flags' = initial_configure_flags
                             /\ Abort(p[1])
    /\ UNCHANGED <<env, fsvars, headers_file, run, skip_build, ffmpeg_headers,
                   prev>>

\* CONFIGURE, lines 214-220: the one retry.
Retry ==
    /\ pc = "retry"
    /\ \E r \in Outcomes(RetryOutputs) :
       LET status == r.status  stderr == r.stderr  out == r.stdout IN
          /\ Invoke(Invocation("configure", configure_args(configure_flags),
                               pkg_config_path, status))
          /\ result' = Result(status, stderr, out)
          /\ CASE status = "ok" -> pc' = "make" /\ panic' = panic
               [] status = "nospawn" ->
                    Abort(Panic("ffmpeg configure script", <<>>, <<>>))
               [] status = "fail" ->
                    Abort(after_failed_configure(FALSE, stderr, out)[1])
    /\ UNCHANGED <<env, fsvars, headers_file, run, runvars, stdout, prev>>

\* The flags among `flags` that switch a feature of the library on.
feature_flags(flags) == Range(flags) \cap {"--enable-gpl", "--enable-libx264"}

make_args == <<Arg("-C"), source_path, Arg("-f"), Arg("Makefile"), <<"-j", "num_cpus">>>>

\* What follows a make that exited with a failure status, lines 237-247.
after_failed_make(stderr, out) ==
    IF ~IsUtf8(stderr) THEN Panic("invalid utf8 str from make stderr", <<>>, <<>>)
    ELSE IF ~IsUtf8(out) THEN Panic("invalid utf8 str from make stdout", <<>>, <<>>)
    ELSE Panic("make failed:",
               <<"* stderr:", "\n">> \o stderr \o <<"\n", "\n">>
                  \o <<"* stdout:", "\n">> \o out, <<>>)

\* BUILD, lines 227-248: make over the staged root; a successful make leaves
\* the static libraries there.
Make ==
    /\ pc = "make"
    /\ \E r \in Outcomes(MakeOutputs) :
       LET status == r.status  stderr == r.stderr  out == r.stdout IN
          /\ Invoke(Invocation("make", make_args, None, status))
          /\ result' = Result(status, stderr, out)
          /\ CASE status = "ok" ->
                    /\ files' = files \cup Artifacts
                    /\ pc' = "link" /\ panic' = panic
               [] status = "nospawn" ->
                    /\ files' = files
                    /\ Abort(Panic("make -C failed", <<>>, <<>>))
               [] status = "fail" ->
                    /\ files' = files
                    /\ Abort(after_failed_make(stderr, out))
    /\ UNCHANGED <<env, bindings, headers_file, run, runvars, stdout, prev>>

\* LINK, lines 251-259.
Link ==
    /\ pc = "link"
    /\ Println(link_directives)
    /\ pc' = "setup"
    /\ UNCHANGED <<env, fsvars, headers_file, run, runvars, invocations, result, panic,
                   prev>>

\* CODEGEN SETUP, lines 263-274: the header list is read and checked.
Setup ==
    /\ pc = "setup"
    /\ Println(<<Line("rerun-if-changed", <<"headers">>)>>)
    /\ IF headers_file = None
       THEN /\ ffmpeg_headers' = ffmpeg_headers
            /\ Abort(Panic("unable to read headers file", <<>>, <<>>))
       ELSE /\ ffmpeg_headers' = headers_file[1]
            /\ IF headers_valid(headers_file[1])
               THEN pc' = "codegen" /\ panic' = panic
               ELSE Abort(Panic("assertion failed", <<>>, <<>>))
    /\ UNCHANGED <<env, fsvars, headers_file, run, skip_build, configure_flags,
                   pkg_config_path, invocations, result, prev>>

\* CODEGEN, line 290: the bindings exist and are kept.
CodegenSkip ==
    /\ pc = "codegen"
    /\ skip_codegen
    /\ pc' = "cbits"
    /\ UNCHANGED <<env, fsvars, headers_file, run, runvars, stdout, invocations, result,
                   panic, prev>>

\* CODEGEN, lines 293-309: a declared header is not in the staged tree.
CodegenMissing ==
    /\ pc = "codegen"
    /\ ~skip_codegen
    /\ missing_headers(ffmpeg_headers) # <<>>
    /\ Abort(Panic("missing headers:", <<>>, missing_headers(ffmpeg_headers)))
    /\ UNCHANGED <<env, fsvars, headers_file, run, runvars, stdout, invocations, result,
                   prev>>

bindgen_args(lines) == <<Arg("-I") \o source_path>> \o found_headers(lines)

\* CODEGEN, lines 311-320: bindgen generates from the headers and the result
\* is written; generation may fail, and so may the write, which then leaves
\* the file as it was or cut short.
CodegenRun ==
    /\ pc = "codegen"
    /\ ~skip_codegen
    /\ missing_headers(ffmpeg_headers) = <<>>
    /\ \E status \in {"ok", "fail", "nowrite"} :
          /\ Invoke(Invocation("bindgen", bindgen_args(ffmpeg_headers), None, status))
          /\ CASE status = "ok" ->
                    /\ files' = files \cup {bindings_path}
                    /\ bindings' = Some(Generated(found_headers(ffmpeg_headers)))
                    /\ pc' = "cbits" /\ panic' = panic
               [] status = "fail" ->
                    /\ UNCHANGED fsvars
                    /\ Abort(Panic("Unable to generate bindings", <<>>, <<>>))
               [] status = "nowrite" ->
                    /\ \/ UNCHANGED fsvars
                       \/ /\ files' = files \cup {bindings_path}
                          /\ bindings' = Some(Generated(<<>>))
                    /\ Abort(Panic("Couldn't write bindings!", <<>>, <<>>))
    /\ UNCHANGED <<env, headers_file, run, runvars, stdout, result, prev>>

cc_args == <<Arg("-I") \o source_path, <<"cbits", "defs.c">>, <<"cbits", "img_utils.c">>>>

\* The shim compile left out when the build was skipped.
CbitsCached ==
    /\ pc = "cbits"
    /\ IF skip_build
       THEN invocations' = invocations /\ pc' = "done" /\ panic' = panic
       ELSE \E status \in {"ok", "fail"} :
               /\ Invoke(Invocation("cc", cc_args, None, status))
               /\ IF status = "ok"
                  THEN pc' = "done" /\ panic' = panic
                  ELSE Abort(Panic("cc failed", <<>>, <<>>))
    /\ UNCHANGED <<env, fsvars, headers_file, run, runvars, stdout, result, prev>>

\* COMPILE CBITS, lines 324-330.
Cbits ==
    /\ pc = "cbits"
    /\ \E status \in {"ok", "fail"} :
          /\ Invoke(Invocation("cc", cc_args, None, status))
          /\ IF status = "ok"
             THEN pc' = "done" /\ panic' = panic
             ELSE Abort(Panic("cc failed", <<>>, <<>>))
    /\ UNCHANGED <<env, fsvars, headers_file, run, runvars, stdout, result, prev>>

-----------------------------------------------------------------------------
(* Between two runs *)

\* The process ends (main returns, or the panic unwinds): its locals are
\* gone, the build system keeps what it printed.
Exit ==
    /\ pc \in {"done", "aborted"}
    /\ pc' = "idle"
    /\ prev' = IF pc = "done"
               THEN [ok |-> TRUE, stdout |-> stdout, bindings |-> bindings,
                     built_with |-> IF skip_build THEN prev.built_with
                                    ELSE Some(feature_flags(configure_flags))]
               ELSE NoPrev
    /\ skip_build' = FALSE
    /\ configure_flags' = <<>>
    /\ pkg_config_path' = None
    /\ ffmpeg_headers' = <<>>
    /\ stdout' = <<>>
    /\ invocations' = <<>>
    /\ result' = NoResult
    /\ panic' = None
    /\ UNCHANGED <<env, fsvars, headers_file, run>>

Flip(v) == IF v = None THEN Some("1") ELSE None

\* A feature of the crate is switched on or off.
ToggleFeature ==
    /\ pc = "idle"
    /\ \E f \in {"CARGO_FEATURE_GPL", "CARGO_FEATURE_X264"} :
          env' = [env EXCEPT ![f] = Flip(@)]
    /\ prev' = [NoPrev EXCEPT !.built_with = prev.built_with]
    /\ UNCHANGED <<fsvars, headers_file, run, pc, runvars, stdout, invocations, result, panic>>

\* OUT_DIR is emptied.
Evict ==
    /\ pc = "idle"
    /\ files' = {q \in files : ~IsPrefix(out_path, q)} \cup {out_path}
    /\ bindings' = None
    /\ prev' = NoPrev
    /\ UNCHANGED <<env, headers_file, run, pc, runvars, stdout, invocations, result, panic>>

-----------------------------------------------------------------------------

Next ==
    \/ Begin
    \/ ExtractCopy
    \/ ExtractFail
    \/ ExtractSkip
    \/ Configure
    \/ Retry
    \/ Make
    \/ Link
    \/ Setup
    \/ CodegenSkip
    \/ CodegenMissing
    \/ CodegenRun
    \/ Cbits
    \/ Exit
    \/ ToggleFeature
    \/ Evict

Spec == Init /\ [][Next]_vars

\* Every phase of a run that has begun is eventually executed.
RunSteps ==
    \/ ExtractCopy \/ ExtractFail \/ ExtractSkip \/ Configure \/ Retry \/ Make
    \/ Link \/ Setup \/ CodegenSkip \/ CodegenMissing \/ CodegenRun \/ Cbits

FairSpec == Spec /\ WF_vars(RunSteps)

TypeOK ==
    /\ pc \in {"idle", "extract", "configure", "retry", "make", "link", "setup",
               "codegen", "cbits", "done", "aborted"}
    /\ run \in 0..MaxRuns
    /\ skip_build \in BOOLEAN
    /\ (pc = "aborted") = (panic # None)
    /\ (bindings # None) = (bindings_path \in files)

-----------------------------------------------------------------------------
(* What the claims speak of *)

ToolsRun == [i \in 1..Len(invocations) |-> invocations[i].tool]

Invoked(tool) == \E i \in 1..Len(invocations) : invocations[i].tool = tool

IsConfigure(i) == i.tool = "configure"

ConfigureCalls == SelectSeq(invocations, IsConfigure)

ProfileIsRelease == env["PROFILE"] \in {Some("release"), Some("RELEASE")}

ProfileIsDebug == env["PROFILE"] = Some("debug")

ForceRebuild == env["FFDEV1"] = Some("1")

ForceRegenerate == env["FFDEV2"] = Some("2")

AllArtifactsExist == Artifacts \subseteq files

\* The phases after the build phases.
LatePhases == {"link", "setup", "codegen", "cbits", "done"}

-----------------------------------------------------------------------------
\* C1: skip_build holds only if every STATIC_LIBS artifact exists under the
\* staged root and the profile is not release and FFDEV1=1 is not set; a run
\* in release profile never skips, and it reaches the phases after the build
\* only having run cp, configure and make, whatever artifacts existed.
C1_SkipBuildOnlyIf ==
    /\ (pc = "extract" /\ skip_build)
          => (AllArtifactsExist /\ ~ProfileIsRelease /\ ~ForceRebuild)
    /\ (pc # "idle" /\ ProfileIsRelease) => ~skip_build
    /\ (pc \in LatePhases /\ ProfileIsRelease)
          => (Len(ToolsRun) >= 3 /\ SubSeq(ToolsRun, 1, 3) = <<"cp", "configure", "make">>)
             \/ (Len(ToolsRun) >= 4
                   /\ SubSeq(ToolsRun, 1, 4) = <<"cp", "configure", "configure", "make">>)

\* A release run that follows a completed release run (so that every
\* artifact existed when it began) has staged, configured and compiled.
C1_Witness ==
    /\ pc = "link"
    /\ ProfileIsRelease
    /\ prev.ok
    /\ AllArtifactsExist
    /\ ToolsRun = <<"cp", "configure", "make">>

\* The link descriptor, written out: the staged root, the nine search paths
\* under it, the seven library names.
Search(path) == [key |-> "cargo:rustc-link-search=native", value |-> path]

Lib(name) == [key |-> "cargo:rustc-link-lib=static", value |-> <<name>>]

ExpectedLinkDescriptor == <<
    Search(<<"OUT_DIR", "ffmpeg-src">>),
    Search(<<"OUT_DIR", "ffmpeg-src", "libavcodec">>),
    Search(<<"OUT_DIR", "ffmpeg-src", "libavdevice">>),
    Search(<<"OUT_DIR", "ffmpeg-src", "libavfilter">>),
    Search(<<"OUT_DIR", "ffmpeg-src", "libavformat">>),
    Search(<<"OUT_DIR", "ffmpeg-src", "libavresample">>),
    Search(<<"OUT_DIR", "ffmpeg-src", "libavutil">>),
    Search(<<"OUT_DIR", "ffmpeg-src", "libpostproc">>),
    Search(<<"OUT_DIR", "ffmpeg-src", "libswresample">>),
    Search(<<"OUT_DIR", "ffmpeg-src", "libswscale">>),
    Lib("avcodec"), Lib("avdevice"), Lib("avfilter"), Lib("avformat"),
    Lib("avutil"), Lib("swresample"), Lib("swscale") >>

\* The lines of stdout from line k + 1 on are the link descriptor, followed
\* by at most the rerun line of the codegen setup.
LinkEmittedAfter(k) ==
    /\ Len(stdout) \in {k + Len(ExpectedLinkDescriptor), k + Len(ExpectedLinkDescriptor) + 1}
    /\ SubSeq(stdout, k + 1, k + Len(ExpectedLinkDescriptor)) = ExpectedLinkDescriptor

-----------------------------------------------------------------------------
\* C2: a run that begins with every artifact present, a profile other than
\* release and no FFDEV1=1 skips the build: it invokes neither cp nor
\* configure nor make, and it still emits the whole link descriptor and
\* carries the binding generation to its end (the bindings kept or
\* generated and the shim compile reached, or the generator's own abort).
C2_SkippedBuildStillLinksAndBinds ==
    /\ [][(Begin /\ AllArtifactsExist /\ ~ProfileIsRelease /\ ~ForceRebuild)
              => skip_build']_vars
    /\ [](skip_build => ~Invoked("cp") /\ ~Invoked("configure") /\ ~Invoked("make"))
    /\ ((pc = "extract" /\ skip_build)
           ~> (pc \in {"cbits", "done", "aborted"} /\ LinkEmittedAfter(0)))

\* A skipped build that completed: only bindgen and the shim compile ran.
C2_Witness ==
    /\ pc = "done"
    /\ skip_build
    /\ ToolsRun = <<"bindgen", "cc">>
    /\ LinkEmittedAfter(0)

-----------------------------------------------------------------------------
\* The message is in the decoded output: both streams are UTF-8 and one of
\* them holds it.
HasMessage(r) ==
    /\ IsUtf8(r.stderr) /\ IsUtf8(r.stdout)
    /\ Contains(r.stderr, NASM_YASM_MESSAGE) \/ Contains(r.stdout, NASM_YASM_MESSAGE)

\* The message is in neither stream.
LacksMessage(r) ==
    ~Contains(r.stderr, NASM_YASM_MESSAGE) /\ ~Contains(r.stdout, NASM_YASM_MESSAGE)

FirstConfigureJustRan ==
    /\ invocations # <<>>
    /\ invocations[Len(invocations)].tool = "configure"
    /\ Len(ConfigureCalls) = 1

WithAsmDisabled(args) == Append(args, Arg("--disable-x86asm"))

C4_NoRetryWithoutMessage ==
    (FirstConfigureJustRan /\ result.status = "fail" /\ LacksMessage(result))
        => (pc = "aborted" /\ ~Invoked("make") /\ configure_flags # <<>>
              /\ configure_args(configure_flags) = ConfigureCalls[1].args)

\* The first configure failed with another error, and the run aborted with
\* the captured output.
C4_Witness ==
    /\ pc = "aborted"
    /\ FirstConfigureJustRan
    /\ result = Result("fail", OTHER_TEXT, OTHER_TEXT)
    /\ panic[1].msg = "configure failed:"

-----------------------------------------------------------------------------
IsLinkDirective(line) ==
    line.key \in {"cargo:rustc-link-search=native", "cargo:rustc-link-lib=static"}

LinkDirectivesOf(printed) == SelectSeq(printed, IsLinkDirective)

\* C5: a run that completes after a completed run, with the configuration
\* and OUT_DIR left as they were, prints the same link directives in the
\* same order and leaves the bindings as that run left them.
C5_SecondRunIdentical ==
    (pc = "done" /\ prev.ok)
        => /\ LinkDirectivesOf(stdout) = LinkDirectivesOf(prev.stdout)
           /\ bindings = prev.bindings

-----------------------------------------------------------------------------
CodegenNotSkipped == ~(Exists(bindings_path) /\ ~ForceRegenerate)

\* The declared headers that are not in the staged tree, each joined to the
\* staged root.
MissingPaths ==
    { Join(source_path, ffmpeg_headers[i]) : i \in 1..Len(ffmpeg_headers) } \ files

\* C6: when generation is not skipped and declared headers are missing from
\* the staged root, the run aborts with one panic that reports exactly the
\* missing paths (the staged root joined with the entry), once each and in
\* the declared order; bindgen is not run and the bindings are not written.
C6_MissingHeadersAbort ==
    [][(pc = "codegen" /\ CodegenNotSkipped /\ MissingPaths # {})
          => /\ pc' = "aborted"
             /\ panic'[1].msg = "missing headers:"
             /\ Range(panic'[1].paths) = MissingPaths
             /\ Len(panic'[1].paths) = Cardinality(MissingPaths)
             /\ \A i, j \in 1..Len(ffmpeg_headers) :
                   (i < j /\ {Join(source_path, ffmpeg_headers[i]),
                              Join(source_path, ffmpeg_headers[j])} \subseteq MissingPaths)
                   => \E a, b \in 1..Len(panic'[1].paths) :
                         /\ a < b
                         /\ panic'[1].paths[a] = Join(source_path, ffmpeg_headers[i])
                         /\ panic'[1].paths[b] = Join(source_path, ffmpeg_headers[j])
             /\ invocations' = invocations
             /\ files' = files
             /\ bindings' = bindings]_vars

\* The staged root holds the first declared header and lacks the second:
\* the one missing path is reported and no bindings exist.
C6_Witness ==
    /\ pc = "aborted"
    /\ ffmpeg_headers = <<H1, H2>>
    /\ Join(source_path, H1) \in files
    /\ panic[1].msg = "missing headers:"
    /\ panic[1].paths = <<Join(source_path, H2)>>
    /\ ~Invoked("bindgen")
    /\ bindings = None

-----------------------------------------------------------------------------
FirstConfigureFlags ==
    Range(SubSeq(ConfigureCalls[1].args, 2, Len(ConfigureCalls[1].args)))

DebugFlags ==
    {Arg("--disable-optimizations"), Arg("--enable-debug"), Arg("--disable-stripping")}

\* C7: the flags of the first configure invocation hold the three debug
\* flags when the profile is debug and the optimization level is 0, and none
\* of them in release profile or at another optimization level.
C7_DebugFlags ==
    ConfigureCalls # <<>> =>
        /\ ConfigureCalls[1].args[1] = Arg("./configure")
        /\ IF ProfileIsDebug /\ env["OPT_LEVEL"] = Some("0")
           THEN DebugFlags \subseteq FirstConfigureFlags
           ELSE DebugFlags \cap FirstConfigureFlags = {}

\* configure has run in a debug profile at optimization level 0.
C7_Witness ==
    /\ ConfigureCalls # <<>>
    /\ ProfileIsDebug
    /\ env["OPT_LEVEL"] = Some("0")
    /\ DebugFlags \subseteq FirstConfigureFlags

-----------------------------------------------------------------------------
\* The run has passed the link descriptor emitter.
PastLinkEmitter ==
    \/ pc \in {"setup", "codegen", "cbits", "done"}
    \/ pc = "aborted" /\ stdout # <<>> /\ stdout[Len(stdout)].key = "rerun-if-changed"

IsCodecLine(line) == line \in {Search(<<"/x264/lib">>), Lib("x264")}

HoldsLinkDescriptor(printed) ==
    \E k \in {0, 2} :
        /\ Len(printed) >= k + Len(ExpectedLinkDescriptor)
        /\ SubSeq(printed, k + 1, k + Len(ExpectedLinkDescriptor)) = ExpectedLinkDescriptor

\* C8: a run that has passed the link descriptor emitter has printed, after
\* the lines of the codec integration if any, exactly the staged root, the
\* SEARCH_PATHS entries under it and the STATIC_LIBS names, in declaration
\* order, whether the build was skipped, rebuilt or configured through the
\* retry; a run that has not reached the emitter has printed none of it;
\* the completed run before printed the same.
C8_LinkDescriptor ==
    /\ PastLinkEmitter
          => \E k \in {0, 2} :
                /\ LinkEmittedAfter(k)
                /\ \A i \in 1..k : IsCodecLine(stdout[i])
    /\ ~PastLinkEmitter => \A i \in 1..Len(stdout) : IsCodecLine(stdout[i])
    /\ prev.ok => HoldsLinkDescriptor(prev.stdout)

\* A run configured through the retry, after a completed run, has emitted
\* the descriptor.
C8_Witness ==
    /\ pc = "done"
    /\ prev.ok
    /\ Len(ConfigureCalls) = 2
    /\ HoldsLinkDescriptor(stdout)

-----------------------------------------------------------------------------
Failed(i) == invocations[i].status # "ok"

\* The failure of invocation i was recovered: it is the first configure,
\* and the retry follows it.
Recovered(i) ==
    /\ invocations[i].tool = "configure"
    /\ invocations[i].status = "fail"
    /\ i < Len(invocations)
    /\ invocations[i + 1].tool = "configure"
    /\ \A j \in 1..(i - 1) : invocations[j].tool # "configure"

\* C9: a failure ends the run. An invocation that failed is the last of its
\* run, but for the first configure when the retry follows; an aborted run
\* invokes nothing more, prints nothing more and writes nothing more; a run
\* that aborted before the link descriptor has printed none of it, and a
\* run that aborted in the header checks has run neither bindgen nor the
\* shim compile.
C9_FailFast ==
    /\ [](\A i \in 1..Len(invocations) :
             Failed(i) => \/ Recovered(i)
                          \/ i = Len(invocations) /\ pc \in {"aborted", "retry"})
    /\ []((pc = "retry") => result.status = "fail")
    /\ []((pc = "aborted" /\ invocations # <<>> /\ Failed(Len(invocations))
             /\ invocations[Len(invocations)].tool \in {"cp", "configure", "make"})
            => (\A i \in 1..Len(stdout) : IsCodecLine(stdout[i])))
    /\ []((pc = "aborted" /\ panic[1].msg \in {"assertion failed", "missing headers:",
                                               "unable to read headers file"})
            => ~Invoked("bindgen") /\ ~Invoked("cc"))
    /\ []((pc = "aborted" /\ Invoked("cc")) => invocations[Len(invocations)].tool = "cc")
    /\ [][pc = "aborted" =>
            /\ pc' = "idle"
            /\ Len(invocations') <= Len(invocations)
            /\ Len(stdout') <= Len(stdout)
            /\ files' = files
            /\ bindings' = bindings]_vars

\* make failed: the run aborted with nothing of the link descriptor printed.
C9_Witness ==
    /\ pc = "aborted"
    /\ ToolsRun = <<"cp", "configure", "make">>
    /\ result.status = "fail"
    /\ ~HoldsLinkDescriptor(stdout)

-----------------------------------------------------------------------------
\* C10: with the bindings present and FFDEV2=2 not set, the codegen phase
\* generates nothing and leaves the bindings as they are; with the bindings
\* absent or the override set, the headers are resolved and bindgen runs (or
\* the run aborts on the missing headers).
C10_BindingsCache ==
    [][pc = "codegen" =>
         IF bindings_path \in files /\ ~ForceRegenerate
         THEN /\ pc' = "cbits"
              /\ invocations' = invocations
              /\ bindings' = bindings
              /\ files' = files
         ELSE \/ /\ MissingPaths # {}
                 /\ pc' = "aborted"
                 /\ panic'[1].msg = "missing headers:"
              \/ /\ MissingPaths = {}
                 /\ invocations' = Append(invocations, invocations'[Len(invocations')])
                 /\ invocations'[Len(invocations')].tool = "bindgen"
                 /\ invocations'[Len(invocations')].args =
                       <<<<"-I", "OUT_DIR", "ffmpeg-src">>>>
                       \o [i \in 1..Len(ffmpeg_headers) |->
                             Join(source_path, ffmpeg_headers[i])]
                 /\ invocations'[Len(invocations')].status = "ok"
                       => bindings' = Some(Generated(
                              [i \in 1..Len(ffmpeg_headers) |->
                                  Join(source_path, ffmpeg_headers[i])]))]_vars

\* Bindings generated from an older header list were found and kept.
C10_Witness ==
    /\ pc = "cbits"
    /\ ~ForceRegenerate
    /\ ~Invoked("bindgen")
    /\ ffmpeg_headers = <<H1, H2>>
    /\ bindings = Some(Generated(<<Join(source_path, H1)>>))

-----------------------------------------------------------------------------
\* The staged root itself holds every path of the pristine tree.
StagedRootHoldsCopy ==
    \A p \in files :
        IsPrefix(pristine_path, p)
            => (source_path \o SubSeq(p, Len(pristine_path) + 1, Len(p))) \in files

CopySucceeded ==
    /\ invocations # <<>>
    /\ invocations[1].tool = "cp"
    /\ invocations[1].status = "ok"

\* C11: a run that does not skip the build has run the stager, and once the
\* copy has succeeded the staged root itself holds the whole pristine tree,
\* also when the staged root existed before the copy.
C11_StagedRootIsFullCopy ==
    /\ (pc \notin {"idle", "extract"} /\ ~skip_build) => Invoked("cp")
    /\ (pc \notin {"idle", "extract"} /\ CopySucceeded) => StagedRootHoldsCopy

-----------------------------------------------------------------------------
\* The first configure attempt has just failed with output that decodes.
FirstConfigureFailedDecodable ==
    /\ FirstConfigureJustRan
    /\ result.status = "fail"
    /\ IsUtf8(result.stderr) /\ IsUtf8(result.stdout)

\* The message in any letter case is in the captured output.
HasMessageInSomeCase(r) ==
    Contains(LowerText(r.stdout \o r.stderr), NASM_YASM_MESSAGE)

\* C12 as claimed: after a failed first configure the retry fires exactly
\* when the lowercased concatenation of the captured standard output and
\* standard error contains the message.
C12_RetryOnLowercasedOutput ==
    FirstConfigureFailedDecodable
        => ((pc = "retry") <=> HasMessageInSomeCase(result))

\* C12, amended: after a failed first configure whose output decodes, the
\* retry fires exactly when the captured standard error or standard output
\* contains the message as it is spelled, in lower case; output that holds
\* the message only in another letter case aborts the run like any other
\* failure, with no retry.
C12_RetryOnExactSpelling ==
    FirstConfigureFailedDecodable
        => /\ (pc = "retry") <=> (\/ Contains(result.stderr, NASM_YASM_MESSAGE)
                                  \/ Contains(result.stdout, NASM_YASM_MESSAGE))
           /\ (HasMessageInSomeCase(result) /\ LacksMessage(result))
                 => (pc = "aborted" /\ panic[1].msg = "configure failed:")

\* The first configure failed with the message spelled in capitals, and the
\* run aborted without a retry.
C12_Witness ==
    /\ pc = "aborted"
    /\ FirstConfigureJustRan
    /\ result = Result("fail", UPPER_TEXT, OTHER_TEXT)
    /\ HasMessageInSomeCase(result)
    /\ panic[1].msg = "configure failed:"

-----------------------------------------------------------------------------
\* The run aborted on a tool of the build phases that exited with a failure
\* status, having left output that decodes.
AbortedOnFailedStep ==
    /\ pc = "aborted"
    /\ invocations # <<>>
    /\ invocations[Len(invocations)].status = "fail"
    /\ invocations[Len(invocations)].tool \in {"cp", "configure", "make"}
    /\ IsUtf8(result.stderr) /\ IsUtf8(result.stdout)

\* C13: a run that aborts on a failed staging copy, a failed configure
\* attempt (the first or the retry) or a failed make ends with a panic that
\* carries the whole captured standard error and standard output of that
\* step.
C13_FailureCarriesOutput ==
    AbortedOnFailedStep
        => /\ Contains(panic[1].text, result.stderr)
           /\ Contains(panic[1].text, result.stdout)

-----------------------------------------------------------------------------
\* The step from phase `from` is the only way into phase `to`.
EntersOnlyFrom(to, from) == (pc' = to /\ pc # to) => pc = from

LastInvocation == invocations[Len(invocations)]

\* C14: a run that does not abort goes through the link descriptor emission,
\* then the binding generation or its cache skip, then the shim compile, in
\* that order: the descriptor is printed before the header list is loaded,
\* bindgen runs (if at all) with the descriptor printed, and cc runs once,
\* last, with the bindings present, whether or not the build or the binding
\* generation was skipped.
C14_LinkThenBindThenShim ==
    /\ [][/\ EntersOnlyFrom("setup", "link")
          /\ EntersOnlyFrom("codegen", "setup")
          /\ EntersOnlyFrom("cbits", "codegen")
          /\ EntersOnlyFrom("done", "cbits")]_vars
    /\ [][pc = "link" => (pc' = "setup" /\ stdout' = stdout \o ExpectedLinkDescriptor)]_vars
    /\ [][pc = "cbits" =>
            /\ Len(invocations') = Len(invocations) + 1
            /\ invocations'[Len(invocations')].tool = "cc"
            /\ (invocations'[Len(invocations')].status = "ok") <=> (pc' = "done")]_vars
    /\ []((Invoked("bindgen") \/ Invoked("cc")) => HoldsLinkDescriptor(stdout))
    /\ [](Invoked("cc") => (LastInvocation.tool = "cc" /\ bindings # None
                             /\ Len(SelectSeq(ToolsRun, LAMBDA x : x = "cc")) = 1))
    /\ []((pc = "done") => /\ invocations # <<>>
                            /\ LastInvocation = Invocation("cc", cc_args, None, "ok")
                            /\ HoldsLinkDescriptor(stdout))

\* The build and the binding generation were both skipped, and the shim
\* compile ran all the same, after the descriptor was printed.
C14_Witness ==
    /\ pc = "done"
    /\ skip_build
    /\ ToolsRun = <<"cc">>
    /\ HoldsLinkDescriptor(stdout)
    /\ bindings # None

-----------------------------------------------------------------------------
\* A line of the header list is empty or holds blanks only.
HasBlankEntry ==
    /\ headers_file # None
    /\ \E i \in 1..Len(headers_file[1]) : headers_file[1][i] \in {"", " ", "  "}

\* C15: a header list with a line that is empty after trimming aborts the
\* run when the list is loaded, before the bindings cache is looked at: also
\* with the bindings present and no FFDEV2=2, the run aborts there, and
\* neither bindgen nor the shim compile runs, and nothing is written.
C15_BlankHeaderEntryAborts ==
    /\ [][(pc = "setup" /\ HasBlankEntry)
            => /\ pc' = "aborted"
               /\ panic'[1].msg = "assertion failed"
               /\ invocations' = invocations
               /\ files' = files
               /\ bindings' = bindings]_vars
    /\ []((pc \in {"codegen", "cbits", "done"}) => ~HasBlankEntry)
    /\ []((pc = "aborted" /\ panic[1].msg = "assertion failed")
            => ~Invoked("bindgen") /\ ~Invoked("cc"))

\* The bindings were there and would have been kept: the run aborted on the
\* blank entry all the same.
C15_Witness ==
    /\ pc = "aborted"
    /\ HasBlankEntry
    /\ panic[1].msg = "assertion failed"
    /\ bindings # None
    /\ ~ForceRegenerate
    /\ ~Invoked("bindgen") /\ ~Invoked("cc")

-----------------------------------------------------------------------------
\* The feature flags the toggles now set would give configure.
CurrentFeatureFlags ==
    {f \in {"--enable-gpl"} : env["CARGO_FEATURE_GPL"] # None}
    \cup {f \in {"--enable-libx264"} : env["CARGO_FEATURE_X264"] # None}

\* The static libraries in OUT_DIR were made under other feature flags than
\* the toggles now set.
BuiltUnderOtherFeatures ==
    /\ AllArtifactsExist
    /\ prev.built_with # None
    /\ prev.built_with[1] # CurrentFeatureFlags

\* C16: whether a run skips the build is decided by the existence of the
\* artifacts, the profile and FFDEV1 alone; switching a feature toggle
\* leaves OUT_DIR as it is, and a non-release run without FFDEV1=1 that
\* finds all artifacts skips staging, configure and make also when they were
\* made under other feature flags, and leaves them as they are.
C16_ReuseIgnoresFeatures ==
    /\ [][Begin => (skip_build' <=> (AllArtifactsExist /\ ~ProfileIsRelease /\ ~ForceRebuild))]_vars
    /\ [][(env' # env) => (files' = files /\ prev'.built_with = prev.built_with)]_vars
    /\ [][(pc = "idle" /\ pc' = "extract" /\ BuiltUnderOtherFeatures
             /\ ~ProfileIsRelease /\ ~ForceRebuild) => skip_build']_vars
    /\ []((pc # "idle" /\ skip_build)
            => (~Invoked("cp") /\ ~Invoked("configure") /\ ~Invoked("make")))
    /\ [][(pc # "idle" /\ skip_build)
            => (AllArtifactsExist' /\ prev'.built_with \in {prev.built_with, None})]_vars

\* Libraries made under other feature flags were reused by a completed run.
C16_Witness ==
    /\ pc = "done"
    /\ skip_build
    /\ BuiltUnderOtherFeatures
    /\ ToolsRun \in {<<"cc">>, <<"bindgen", "cc">>}

-----------------------------------------------------------------------------
\* The run has staged, configured (once or through the retry) and compiled.
Rebuilt ==
    \/ (Len(ToolsRun) >= 3 /\ SubSeq(ToolsRun, 1, 3) = <<"cp", "configure", "make">>)
    \/ (Len(ToolsRun) >= 4
          /\ SubSeq(ToolsRun, 1, 4) = <<"cp", "configure", "configure", "make">>)

\* C17: FFDEV1=1 and FFDEV2=2 act apart. A run under FFDEV1=1 or in release
\* profile that gets past the build has staged, configured and compiled,
\* and with the bindings present and no FFDEV2=2 it keeps them without
\* running bindgen; a run under FFDEV2=2 never keeps the bindings (bindgen
\* runs, or the run aborts on missing headers), and it runs neither cp nor
\* configure nor make when the artifacts, the profile and FFDEV1 let the
\* build be skipped.
C17_OverridesIndependent ==
    /\ []((pc \in LatePhases /\ (ForceRebuild \/ ProfileIsRelease)) => Rebuilt)
    /\ [][(pc = "codegen" /\ (ForceRebuild \/ ProfileIsRelease)
             /\ bindings_path \in files /\ ~ForceRegenerate)
            => (pc' = "cbits" /\ invocations' = invocations
                  /\ bindings' = bindings /\ files' = files)]_vars
    /\ [][(Begin /\ ForceRegenerate)
            => (skip_build' <=> (AllArtifactsExist /\ ~ProfileIsRelease /\ ~ForceRebuild))]_vars
    /\ []((pc # "idle" /\ ForceRegenerate /\ skip_build)
            => (~Invoked("cp") /\ ~Invoked("configure") /\ ~Invoked("make")))
    /\ []((pc \in {"cbits", "done"} /\ ForceRegenerate) => Invoked("bindgen"))

\* Under FFDEV1=1 alone the library was staged, configured and compiled
\* again, and the bindings of an older header list were kept.
C17_Witness ==
    /\ pc = "done"
    /\ ForceRebuild /\ ~ForceRegenerate /\ ~ProfileIsRelease
    /\ ToolsRun = <<"cp", "configure", "make", "cc">>
    /\ ffmpeg_headers = <<H1, H2>>
    /\ bindings = Some(Generated(<<Join(source_path, H1)>>))

-----------------------------------------------------------------------------
CodecEnabled == env["CARGO_FEATURE_X264"] # None

\* The PKG_CONFIG_PATH configure is to be given: the codec's path, ":" and
\* the path found in the environment; the codec's path alone; or what the
\* environment holds.
ExpectedPkgConfigPath ==
    IF CodecEnabled
    THEN IF env["PKG_CONFIG_PATH"] = Some("/usr/lib/pkgconfig")
         THEN Some(<<"/x264/lib/pkgconfig", ":", "/usr/lib/pkgconfig">>)
         ELSE Some(<<"/x264/lib/pkgconfig">>)
    ELSE IF env["PKG_CONFIG_PATH"] = Some("/usr/lib/pkgconfig")
         THEN Some(<<"/usr/lib/pkgconfig">>)
         ELSE None

\* C18: every configure invocation of a run, the first attempt and the
\* retry alike, is given as PKG_CONFIG_PATH the codec's metadata path
\* followed by ":" and the PKG_CONFIG_PATH of the environment when the codec
\* feature is on (the codec's path alone when the environment has none),
\* and the PKG_CONFIG_PATH of the environment as it is when the feature is
\* off.
C18_PkgConfigPath ==
    /\ \A i \in 1..Len(ConfigureCalls) : ConfigureCalls[i].pkg = ExpectedPkgConfigPath
    /\ (pc = "retry") => pkg_config_path = ExpectedPkgConfigPath

\* The first attempt and the retry were both given the codec's path ahead
\* of the path of the environment.
C18_Witness ==
    /\ Len(ConfigureCalls) = 2
    /\ CodecEnabled
    /\ env["PKG_CONFIG_PATH"] = Some("/usr/lib/pkgconfig")
    /\ ConfigureCalls[1].pkg = Some(<<"/x264/lib/pkgconfig", ":", "/usr/lib/pkgconfig">>)
    /\ ConfigureCalls[2].pkg = ConfigureCalls[1].pkg

-----------------------------------------------------------------------------
CountOf(tool) == Len(SelectSeq(ToolsRun, LAMBDA x : x = tool))

\* C19: in a run make is invoked at most once and configure at most twice;
\* make directly follows a configure invocation of the run that exited
\* successfully, and every configure invocation comes after the staging
\* copy, the first invocation of the run, which exited successfully.
C19_BuildStepOrder ==
    /\ CountOf("make") <= 1
    /\ CountOf("configure") <= 2
    /\ CountOf("cp") <= 1
    /\ \A i \in 1..Len(invocations) :
          /\ invocations[i].tool = "make"
                => /\ i > 1
                   /\ invocations[i - 1].tool = "configure"
                   /\ invocations[i - 1].status = "ok"
          /\ invocations[i].tool = "configure"
                => /\ i \in {2, 3}
                   /\ invocations[1].tool = "cp"
                   /\ invocations[1].status = "ok"
                   /\ (i = 3) => (invocations[2].tool = "configure"
                                    /\ invocations[2].status = "fail")

\* make ran after the retry, the second configure of the run, succeeded.
C19_Witness ==
    /\ ToolsRun = <<"cp", "configure", "configure", "make">>
    /\ invocations[1].status = "ok"
    /\ invocations[2].status = "fail"
    /\ invocations[3].status = "ok"

-----------------------------------------------------------------------------
\* Every declared header, joined to the staged root, in the declared order.
DeclaredHeaderPaths ==
    [i \in 1..Len(ffmpeg_headers) |-> <<"OUT_DIR", "ffmpeg-src", ffmpeg_headers[i]>>]

\* C20: a run that completes ends with bindings_ffmpeg.rs in OUT_DIR and
\* with the shim compile executed; the bindings are those an earlier run
\* left, kept as they were, or they were written by this run's bindgen from
\* every declared header, never from a part of the list.
C20_CompletedRunHasBindings ==
    /\ []((pc = "done")
            => /\ bindings_path \in files
               /\ bindings # None
               /\ invocations # <<>>
               /\ LastInvocation.tool = "cc" /\ LastInvocation.status = "ok"
               /\ Invoked("bindgen")
                     => bindings = Some([include |-> <<"OUT_DIR", "ffmpeg-src">>,
                                         headers |-> DeclaredHeaderPaths]))
    /\ [][(pc = "codegen" /\ pc' = "cbits")
            => \/ /\ ~Invoked("bindgen")'
                  /\ bindings # None
                  /\ bindings' = bindings
               \/ /\ Invoked("bindgen")'
                  /\ bindings'[1].headers = DeclaredHeaderPaths
                  /\ Range(DeclaredHeaderPaths) \subseteq files]_vars
    /\ [][(bindings' # bindings /\ pc # "idle")
            => (pc = "codegen" /\ Invoked("bindgen")')]_vars

\* The run regenerated the bindings from both declared headers over those
\* an older list had left, and completed.
C20_Witness ==
    /\ pc = "done"
    /\ ForceRegenerate
    /\ ToolsRun = <<"bindgen", "cc">>
    /\ ffmpeg_headers = <<H1, H2>>
    /\ bindings = Some(Generated(<<Join(source_path, H1), Join(source_path, H2)>>))

====
